---- MODULE Spec2Model ----
(***************************************************************************)
(* Poisson_linear notebook: -laplace(u) = f on the unit square, Dirichlet  *)
(* data u_D = 1 + x^2 + 2 y^2, Q1 elements on an N x N quadrilateral mesh. *)
(*                                                                         *)
(* Numbers.  A nodal value u is held as U = N*N*u: the boundary data      *)
(* N*N + i*i + 2*j*j at node (i/N, j/N) as an integer, a solution value as *)
(* a fraction num/den in lowest terms.  The assembled system is scaled by  *)
(* 12 (element matrix 12*Ke, element load 12*N*N*f*h*h/4 = 3*f).  The      *)
(* direct solve is exact; floating-point rounding is not modelled.         *)
(***************************************************************************)
EXTENDS Integers, Sequences, FiniteSets

\* create_unit_square(MPI.COMM_WORLD, 8, 8, quadrilateral): subdivisions per side
N == 8

\* f_num = - 6
f_num == -6

\* primes of the modular arithmetic of the direct solve (P*P < 2^31)
P == 46337

Q == 46327

\* the printed array has at most 8 decimals: one unit of the last is 10^-8
PrintUnit == 100000000

\* TLC keeps [x \in S |-> e] unevaluated and recomputes e at every
\* application; comparing the function makes TLC store its table once.
Stored(f) == IF f = f THEN f ELSE f

----------------------------------------------------------------------------
(* Mesh: an N x N grid of quadrilateral cells on the unit square.          *)
(* Vertices are pairs <<i, j>> (the point (i/N, j/N)); cells and facets    *)
(* are numbered, as in the library's topology.                             *)

Nodes == (0..N) \X (0..N)

NCells == N * N

Cells == 0..(NCells - 1)

\* the four vertices of cell c (column c % N, row c \div N)
CellNodes(c) == {<<(c % N) + di, (c \div N) + dj>> : di \in {0, 1}, dj \in {0, 1}}

NFacets == 2 * N * (N + 1)

Facets == 0..(NFacets - 1)

\* the two vertices of facet fc: facets 0 .. N*(N+1)-1 are the horizontal
\* edges (i,j)-(i+1,j), the others the vertical edges (i,j)-(i,j+1)
FacetNodes(fc) ==
    IF fc < N * (N + 1)
    THEN {<<fc % N, fc \div N>>, <<(fc % N) + 1, fc \div N>>}
    ELSE LET e == fc - N * (N + 1) IN {<<e \div N, e % N>>, <<e \div N, (e % N) + 1>>}

\* topology.create_connectivity(fdim, tdim): the cells attached to each facet
FacetToCell == Stored([fc \in Facets |-> {c \in Cells : FacetNodes(fc) \subseteq CellNodes(c)}])

\* ExteriorFacets with the wrong test: every facet that has a cell
ExteriorFacetsAttached(conn) == {fc \in DOMAIN conn : Cardinality(conn[fc]) >= 1}

\* exterior_facet_indices: the facets attached to a single cell
ExteriorFacets(conn) == {fc \in DOMAIN conn : Cardinality(conn[fc]) = 1}

----------------------------------------------------------------------------
(* Function space ("CG", 1): one degree of freedom per vertex.  The DOF    *)
(* numbering is the one the recorded output array exhibits: vertices are   *)
(* ordered by (Group, i, j).                                               *)

Max(a, b) == IF a >= b THEN a ELSE b
Min(a, b) == IF a <= b THEN a ELSE b

Group(n) == IF Min(n[1], n[2]) <= 1 THEN Max(n[1], n[2]) ELSE n[1] + n[2] - 1

Before(m, n) ==
    \/ Group(m) < Group(n)
    \/ Group(m) = Group(n) /\ m[1] < n[1]
    \/ Group(m) = Group(n) /\ m[1] = n[1] /\ m[2] < n[2]

NDofs == (N + 1) * (N + 1)

Dofs == 0..(NDofs - 1)

\* DOF number of a vertex
DofOfNode == Stored([n \in Nodes |-> Cardinality({m \in Nodes : Before(m, n)})])

\* vertex of a DOF number
NodeOfDof == Stored([d \in Dofs |-> CHOOSE n \in Nodes : DofOfNode[n] = d])

\* locate_dofs_topological(V, fdim, facets): the DOFs on the given facets
LocateDofs(facets) == {DofOfNode[n] : n \in UNION {FacetNodes(fc) : fc \in facets}}

\* BoundaryExpr without the factor 2 on y^2
BoundaryExprIsotropic(n) == N * N + n[1] * n[1] + n[2] * n[2]

\* u_boundary.interpolate(lambda x: 1 + x[0]**2 + 2 * x[1]**2), times N*N
BoundaryExpr(n) == N * N + n[1] * n[1] + 2 * n[2] * n[2]

Interpolate == Stored([d \in Dofs |-> BoundaryExpr(NodeOfDof[d])])

----------------------------------------------------------------------------
(* Forms.  a = dot(grad(u), grad(v)) * dx and L = f * v * dx on Q1 shape   *)
(* functions of a square cell of side h = 1/N.                             *)

\* the cells a vertex belongs to
NodeCells(n) == {c \in Cells : n \in CellNodes(c)}

\* the number of cells around each DOF
DofCells == Stored([d \in Dofs |-> Cardinality(NodeCells(NodeOfDof[d]))])

\* 6 * integral over one cell of grad(phi_p) . grad(phi_q): the x-derivatives
\* have equal sign iff p and q lie on the same x-side, and the remaining
\* factor integrates to 1/3 (same y-side) or 1/6; likewise in y
GradDot(p, q) ==
    (IF p[1] = q[1] THEN 1 ELSE -1) * (IF p[2] = q[2] THEN 2 ELSE 1)
  + (IF p[2] = q[2] THEN 1 ELSE -1) * (IF p[1] = q[1] THEN 2 ELSE 1)

\* assemble_matrix(a), times 12: the sum of the cell matrices
AssembleMatrix ==
    Stored([r \in Dofs |-> [c \in Dofs |->
        2 * GradDot(NodeOfDof[r], NodeOfDof[c])
          * Cardinality(NodeCells(NodeOfDof[r]) \cap NodeCells(NodeOfDof[c]))]])

\* AssembleVector with the sign of the load lost
AssembleVectorNegated(fval) == [r \in Dofs |-> 0 - 3 * fval * DofCells[r]]

\* assemble_vector(L), times 12*N*N: each cell adds 12*N*N*f*h*h/4 = 3*f
AssembleVector(fval) == [r \in Dofs |-> 3 * fval * DofCells[r]]

\* sum of t[lo..hi]; the range is halved to keep the evaluation shallow
RECURSIVE Sum(_, _, _)
Sum(t, lo, hi) ==
    IF lo > hi THEN 0
    ELSE IF lo = hi THEN t[lo]
    ELSE LET mid == (lo + hi) \div 2 IN Sum(t, lo, mid) + Sum(t, mid + 1, hi)

\* System whose constrained rows are never given their values (no set_bc)
SystemUnset(A, b, dofs, g) ==
    [mat |-> Stored([r \in Dofs |-> [c \in Dofs |->
                IF r \in dofs THEN (IF r = c THEN 1 ELSE 0)
                ELSE IF c \in dofs THEN 0
                ELSE A[r][c]]]),
     rhs |-> Stored([r \in Dofs |->
                IF r \in dofs THEN 0
                ELSE b[r] - Sum([k \in Dofs |-> IF k \in dofs THEN A[r][k] * g[k] ELSE 0],
                                0, NDofs - 1)])]

\* The system handed to the solver.  LinearProblem.solve: assemble_matrix
\* with bcs (constrained rows and columns zeroed, diagonal 1), apply_lifting
\* (b - A g) and set_bc (b = g on the constrained DOFs).
System(A, b, dofs, g) ==
    [mat |-> Stored([r \in Dofs |-> [c \in Dofs |->
                IF r \in dofs THEN (IF r = c THEN 1 ELSE 0)
                ELSE IF c \in dofs THEN 0
                ELSE A[r][c]]]),
     rhs |-> Stored([r \in Dofs |->
                IF r \in dofs THEN g[r]
                ELSE b[r] - Sum([k \in Dofs |-> IF k \in dofs THEN A[r][k] * g[k] ELSE 0],
                                0, NDofs - 1)])]

----------------------------------------------------------------------------
(* Direct solve: petsc_options {"ksp_type": "preonly", "pc_type": "lu"}.   *)
(* The solver returns the solution of the system (up to rounding, which is *)
(* not modelled); here it is computed exactly, as fractions: LU modulo P,  *)
(* P-adic lifting of the solution to four digits, and reconstruction of    *)
(* the fraction each four-digit number stands for, checked modulo Q.       *)

RECURSIVE PowMod(_, _, _)
PowMod(a, e, m) ==
    IF e = 0 THEN 1
    ELSE LET h == PowMod(a, e \div 2, m)
             hh == (h * h) % m
         IN IF e % 2 = 1 THEN (hh * a) % m ELSE hh

\* 1/a modulo the prime m
Inverse(a, m) == PowMod(a, m - 2, m)

\* eliminate column k below the pivot, keeping the multipliers in column k
EliminateColumn(M, k, m) ==
    LET inv == Inverse(M[k][k], m)
    IN Stored([r \in Dofs |->
           IF r > k /\ M[r][k] # 0
           THEN LET fac == (M[r][k] * inv) % m
                IN [c \in Dofs |->
                       IF c < k THEN M[r][c]
                       ELSE IF c = k THEN fac
                       ELSE (M[r][c] - fac * M[k][c]) % m]
           ELSE M[r]])

\* elimination of columns lo..hi in order; <<>> on a zero pivot
RECURSIVE Eliminate(_, _, _, _)
Eliminate(M, lo, hi, m) ==
    IF M = <<>> THEN <<>>
    ELSE IF lo = hi THEN (IF M[lo][lo] = 0 THEN <<>> ELSE EliminateColumn(M, lo, m))
    ELSE LET mid == (lo + hi) \div 2 IN Eliminate(Eliminate(M, lo, mid, m), mid + 1, hi, m)

\* the LU factors of A modulo m (L below the diagonal, U on and above it),
\* without pivoting; <<>> on a zero pivot
Factor(A, m) ==
    Eliminate(Stored([r \in Dofs |-> [c \in Dofs |-> A[r][c] % m]]), 0, NDofs - 1, m)

\* y[k] of L y = b, given ys = <<y[0], ..., y[k-1]>>
ForwardRow(LU, k, ys, b, m) ==
    (b[k] - Sum([c \in Dofs |-> IF c < k THEN (LU[k][c] * ys[c + 1]) % m ELSE 0], 0, NDofs - 1)) % m

\* forward substitution for rows lo..hi, given the solution ys of the rows before lo
RECURSIVE Forward(_, _, _, _, _, _)
Forward(LU, ys, lo, hi, b, m) ==
    IF Len(ys) # lo THEN <<>>
    ELSE IF lo = hi THEN ys \o <<ForwardRow(LU, lo, ys, b, m)>>
    ELSE LET mid == (lo + hi) \div 2
         IN Forward(LU, Forward(LU, ys, lo, mid, b, m), mid + 1, hi, b, m)

\* x[k] of U x = y, given xs = <<x[k+1], ..., x[NDofs-1]>>
BackRow(LU, k, xs, ys, m) ==
    (((ys[k + 1] - Sum([c \in Dofs |-> IF c > k THEN (LU[k][c] * xs[c - k]) % m ELSE 0],
                       0, NDofs - 1)) % m)
       * Inverse(LU[k][k], m)) % m

\* back substitution for rows hi, hi-1, ..., lo, given the solution xs of the
\* rows after hi
RECURSIVE BackSubstitute(_, _, _, _, _, _)
BackSubstitute(LU, xs, lo, hi, ys, m) ==
    IF Len(xs) # NDofs - 1 - hi THEN <<>>
    ELSE IF lo = hi THEN <<BackRow(LU, lo, xs, ys, m)>> \o xs
    ELSE LET mid == (lo + hi) \div 2
         IN BackSubstitute(LU, BackSubstitute(LU, xs, mid + 1, hi, ys, m), lo, mid, ys, m)

\* the solution of A x = b modulo m from the factors of A
SolveLU(LU, b, m) ==
    LET ys == Forward(LU, <<>>, 0, NDofs - 1, b, m)
        xs == BackSubstitute(LU, <<>>, 0, NDofs - 1, ys, m)
    IN Stored([d \in Dofs |-> xs[d + 1]])

\* the next residual of the lifting: (r - A x) / P, an exact division
Residual(A, r, x) ==
    Stored([row \in Dofs |->
        (r[row] - Sum([c \in Dofs |-> A[row][c] * x[c]], 0, NDofs - 1)) \div P])

\* the first k P-adic digits of the solution of A x = r
RECURSIVE LiftDigits(_, _, _, _)
LiftDigits(A, LU, r, k) ==
    IF k = 0 THEN <<>>
    ELSE LET x == SolveLU(LU, r, P)
         IN <<x>> \o LiftDigits(A, LU, Residual(A, r, x), k - 1)

\* Numbers below P^4 are held as two limbs lo + Base * hi, 0 <= lo, hi < Base
Base == P * P

Less(x, y) == x.hi < y.hi \/ (x.hi = y.hi /\ x.lo < y.lo)

\* x - y for x >= y
Minus(x, y) ==
    IF x.lo >= y.lo THEN [lo |-> x.lo - y.lo, hi |-> x.hi - y.hi]
    ELSE [lo |-> x.lo + (Base - y.lo), hi |-> x.hi - y.hi - 1]

Twice(x) ==
    IF x.lo >= Base - x.lo THEN [lo |-> x.lo - (Base - x.lo), hi |-> 2 * x.hi + 1]
    ELSE [lo |-> 2 * x.lo, hi |-> 2 * x.hi]

\* x mod y and xs + (x div y) * ys, by doubling y
RECURSIVE Reduce(_, _, _, _)
Reduce(x, xs, y, ys) ==
    IF Less(x, y) THEN [r |-> x, s |-> xs]
    ELSE LET t == IF Less(Minus(x, y), y) THEN [r |-> x, s |-> xs]
                  ELSE Reduce(x, xs, Twice(y), 2 * ys)
         IN IF Less(t.r, y) THEN t ELSE [r |-> Minus(t.r, y), s |-> t.s + ys]

\* Euclid's algorithm on (P^4, a), stopped at the first remainder below
\* Base: r1 = sign * s1 * a modulo P^4
RECURSIVE Euclid(_, _, _, _, _)
Euclid(r0, s0, r1, s1, sign) ==
    IF r1.hi = 0 THEN [num |-> sign * r1.lo, den |-> s1]
    ELSE LET t == Reduce(r0, s0, r1, s1) IN Euclid(r1, s1, t.r, t.s, 0 - sign)

\* the fraction num/den, |num| < Base, that the residue a modulo P^4 stands for
Reconstruct(a) ==
    IF a.hi = 0 THEN [num |-> a.lo, den |-> 1]
    ELSE Euclid(IF a.lo > 0 THEN [lo |-> Base - a.lo, hi |-> Base - 1 - a.hi]
                ELSE [lo |-> 0, hi |-> Base - a.hi],
                1, a, 1, 1)

\* The solution of S.mat x = S.rhs as a vector of fractions in lowest terms,
\* or <<>> when the factorisation meets a zero pivot.  A solution whose
\* fractions lie outside the range of Reconstruct has no value here.
DirectSolve(S) ==
    LET LUP == Factor(S.mat, P)
        LUQ == Factor(S.mat, Q)
    IN IF LUP = <<>> /\ LUQ = <<>> THEN <<>>
       ELSE LET digits == LiftDigits(S.mat, LUP, S.rhs, 4)
                check == SolveLU(LUQ, S.rhs, Q)
            IN Stored([d \in Dofs |->
                   CHOOSE fr \in {Reconstruct([lo |-> digits[1][d] + P * digits[2][d],
                                               hi |-> digits[3][d] + P * digits[4][d]])} :
                       ((fr.num % Q) - (fr.den % Q) * check[d]) % Q = 0])

----------------------------------------------------------------------------
(* The library's objects, on the one process of the notebook's kernel      *)
(* (MPI.COMM_WORLD has size 1).  Objects are held by value.               *)

\* create_unit_square(MPI.COMM_WORLD, N, N, CellType.quadrilateral); the
\* facet-to-cell connectivity is not computed yet
CreateUnitSquare == [cells |-> NCells, conn |-> FALSE]

\* FunctionSpace(solution_domain, ("CG", 1)): one DOF per vertex of the mesh
FunctionSpace(mesh) ==
    [family |-> "CG", degree |-> 1, cells |-> mesh.cells, ndofs |-> NDofs]

\* acc followed by the next k decimal digits of rem/den, and what remains
RECURSIVE Decimals(_, _, _, _)
Decimals(acc, rem, den, k) ==
    IF k = 0 THEN [int |-> acc, rem |-> rem]
    ELSE Decimals(10 * acc + (10 * rem) \div den, (10 * rem) % den, den, k - 1)

\* a nodal value N*N*u = num/den as the printed decimal of u, in units of
\* 10^-8, rounded to the nearest (a tie to the even one)
Format(fr) ==
    LET m == IF fr.num < 0 THEN 0 - fr.num ELSE fr.num
        t == Decimals(0, m % fr.den, fr.den, 8)
        down == (m \div fr.den) * (PrintUnit \div (N * N)) + t.int \div (N * N)
        h == 2 * (t.int % (N * N)) - N * N
        up == \/ h >= 1
              \/ h = 0 /\ (t.rem > 0 \/ down % 2 = 1)
              \/ h = -1 /\ (t.rem > fr.den - t.rem \/ (t.rem = fr.den - t.rem /\ down % 2 = 1))
        shown == IF up THEN down + 1 ELSE down
    IN IF fr.num < 0 THEN 0 - shown ELSE shown

\* VectorArray that stops one short of the last DOF
VectorArrayShort(fn) == [k \in 1..(fn.V.ndofs - 1) |-> Format(fn.x[k - 1])]

\* uh.vector.array: the values of the function's DOFs, in DOF order
VectorArray(fn) == [k \in 1..fn.V.ndofs |-> Format(fn.x[k - 1])]

----------------------------------------------------------------------------
(* The kernel: a namespace, the execution counter and the last outcome     *)

VARIABLES
    ns,               \* the names bound in the kernel and their values
    execution_count,  \* the kernel's execution counter
    status,           \* the most recent execution: the cell, the exception and the
                      \* statement that raised it, the statements that completed,
                      \* the names that were not bound before
    out               \* the array shown under the last cell (<<>>: none)

vars == <<ns, execution_count, status, out>>

\* executions of cells the model follows
MaxExec == 11

NoSpace == [family |-> "", degree |-> 0, cells |-> 0, ndofs |-> 0]

NoFunction == [V |-> NoSpace, x |-> <<>>]

EmptyNamespace ==
    [names |-> {},
     solution_domain |-> [cells |-> 0, conn |-> FALSE],
     V_function_space |-> NoSpace,
     u_boundary |-> NoFunction,
     tdim |-> 0,
     fdim |-> 0,
     boundary_facets |-> {},
     boundary_dofs |-> {},
     bc |-> [g |-> <<>>, dofs |-> {}],
     u |-> NoSpace,
     f_num |-> 0,
     f |-> 0,
     a |-> NoSpace,
     L |-> 0,
     problem |-> [V |-> NoSpace, f |-> 0, g |-> <<>>, dofs |-> {}, ksp_type |-> "", pc_type |-> ""],
     uh |-> NoFunction]

\* a step of a statement's evaluation that runs library code: an import, or
\* the attribute lookups, operators and calls on library objects between two
\* loads of a name
Lib == "<library>"

\* the statements of the code cells, in notebook order: the name a statement
\* binds, the exception it ends with when the library it uses fails ("" for
\* a statement that uses none), and the steps of its evaluation in the order
\* Python takes them (a name stands for the load of that name)
Stmts == <<
    [line |->  44, binds |-> "MPI", exc |-> "ModuleNotFoundError",
     steps |-> <<Lib>>],
    [line |->  45, binds |-> "fe", exc |-> "ModuleNotFoundError",
     steps |-> <<Lib>>],
    [line |->  46, binds |-> "numpy", exc |-> "ModuleNotFoundError",
     steps |-> <<Lib>>],
    [line |->  47, binds |-> "ufl", exc |-> "ModuleNotFoundError",
     steps |-> <<Lib>>],
    [line |->  48, binds |-> "PETSc", exc |-> "ModuleNotFoundError",
     steps |-> <<Lib>>],
    [line |->  59, binds |-> "solution_domain", exc |-> "LibraryError",
     steps |-> <<"fe", Lib, "MPI", Lib, "fe", Lib>>],
    [line |->  60, binds |-> "V_function_space", exc |-> "LibraryError",
     steps |-> <<"fe", Lib, "solution_domain", Lib>>],
    [line |->  71, binds |-> "u_boundary", exc |-> "LibraryError",
     steps |-> <<"fe", Lib, "V_function_space", Lib>>],
    [line |->  72, binds |-> "", exc |-> "LibraryError",
     steps |-> <<"u_boundary", Lib>>],
    [line |->  83, binds |-> "tdim", exc |-> "LibraryError",
     steps |-> <<"solution_domain", Lib>>],
    [line |->  84, binds |-> "fdim", exc |-> "",
     steps |-> <<"tdim">>],
    [line |->  85, binds |-> "", exc |-> "LibraryError",
     steps |-> <<"solution_domain", Lib, "fdim", "tdim", Lib>>],
    [line |->  86, binds |-> "boundary_facets", exc |-> "LibraryError",
     steps |-> <<"fe", Lib, "solution_domain", Lib>>],
    [line |->  97, binds |-> "boundary_dofs", exc |-> "LibraryError",
     steps |-> <<"fe", Lib, "V_function_space", "fdim", "boundary_facets", Lib>>],
    [line |->  98, binds |-> "bc", exc |-> "LibraryError",
     steps |-> <<"fe", Lib, "u_boundary", "boundary_dofs", Lib>>],
    [line |-> 108, binds |-> "u", exc |-> "LibraryError",
     steps |-> <<"ufl", Lib, "V_function_space", Lib>>],
    [line |-> 109, binds |-> "v", exc |-> "LibraryError",
     steps |-> <<"ufl", Lib, "V_function_space", Lib>>],
    [line |-> 120, binds |-> "f_num", exc |-> "",
     steps |-> <<>>],
    [line |-> 121, binds |-> "f", exc |-> "LibraryError",
     steps |-> <<"fe", Lib, "solution_domain", "PETSc", Lib, "f_num", Lib>>],
    [line |-> 132, binds |-> "a", exc |-> "LibraryError",
     steps |-> <<"ufl", Lib, "ufl", Lib, "u", Lib, "ufl", Lib, "v", Lib, "ufl", Lib>>],
    [line |-> 133, binds |-> "L", exc |-> "LibraryError",
     steps |-> <<"f", "v", Lib, "ufl", Lib>>],
    [line |-> 144, binds |-> "problem", exc |-> "LibraryError",
     steps |-> <<"fe", Lib, "a", "L", "bc", Lib>>],
    [line |-> 145, binds |-> "uh", exc |-> "LibraryError",
     steps |-> <<"problem", Lib>>],
    [line |-> 179, binds |-> "", exc |-> "LibraryError",
     steps |-> <<"uh", Lib>>] >>


\* the code cells and the last statement of each
CellIds == 1..10

LastStmt == <<5, 7, 9, 13, 15, 17, 19, 21, 23, 24>>

FirstStmt(c) == IF c = 1 THEN 1 ELSE LastStmt[c - 1] + 1

SolveCell == 9

OutputCell == 10

\* the exterior facets and the boundary DOFs of the notebook's mesh, found once
NotebookFacets == ExteriorFacets(FacetToCell)

NotebookDofs == LocateDofs(NotebookFacets)

\* u_boundary as fe.fem.Function(V_function_space) creates it
ZeroVector == [d \in Dofs |-> 0]

\* the system the notebook's own cells set up, solved once
NotebookSolution ==
    DirectSolve(System(AssembleMatrix, AssembleVector(f_num), NotebookDofs, Interpolate))

\* the same system with u_boundary never interpolated, solved once
UninterpolatedSolution ==
    DirectSolve(System(AssembleMatrix, AssembleVector(f_num), NotebookDofs, ZeroVector))

\* LinearProblem.solve(): assemble, lift, factorise and solve
ProblemSolve(problem) ==
    IF problem.f = f_num /\ problem.dofs = NotebookDofs /\ problem.g = Interpolate
    THEN NotebookSolution
    ELSE IF problem.f = f_num /\ problem.dofs = NotebookDofs /\ problem.g = ZeroVector
    THEN UninterpolatedSolution
    ELSE DirectSolve(System(AssembleMatrix, AssembleVector(problem.f), problem.dofs, problem.g))

\* uh = problem.solve(): a new function holding the solution
Solve(env) == [V |-> env.problem.V, x |-> ProblemSolve(env.problem)]

\* the namespace after statement s has run
Effect(env, s) ==
    LET bound == [env EXCEPT !.names = @ \cup ({Stmts[s].binds} \ {""})]
    IN CASE s = 6 -> [bound EXCEPT !.solution_domain = CreateUnitSquare]
         [] s = 7 -> [bound EXCEPT !.V_function_space = FunctionSpace(env.solution_domain)]
         [] s = 8 -> [bound EXCEPT !.u_boundary = [V |-> env.V_function_space, x |-> ZeroVector]]
         [] s = 9 -> [bound EXCEPT !.u_boundary.x = Interpolate]
         [] s = 10 -> [bound EXCEPT !.tdim = 2]
         [] s = 11 -> [bound EXCEPT !.fdim = env.tdim - 1]
         [] s = 12 -> [bound EXCEPT !.solution_domain.conn = TRUE]
         [] s = 13 -> [bound EXCEPT !.boundary_facets = NotebookFacets]
         [] s = 14 -> [bound EXCEPT !.boundary_dofs =
                          IF env.boundary_facets = NotebookFacets THEN NotebookDofs
                          ELSE LocateDofs(env.boundary_facets)]
         [] s = 15 -> [bound EXCEPT !.bc = [g |-> env.u_boundary.x, dofs |-> env.boundary_dofs]]
         [] s = 16 -> [bound EXCEPT !.u = env.V_function_space]
         [] s = 18 -> [bound EXCEPT !.f_num = f_num]
         [] s = 19 -> [bound EXCEPT !.f = env.f_num]
         [] s = 20 -> [bound EXCEPT !.a = env.u]
         [] s = 21 -> [bound EXCEPT !.L = env.f]
         [] s = 22 -> [bound EXCEPT !.problem =
                          [V |-> env.a, f |-> env.L, g |-> env.bc.g, dofs |-> env.bc.dofs,
                           ksp_type |-> "preonly", pc_type |-> "lu"]]
         [] s = 23 -> [bound EXCEPT !.uh = Solve(env)]
         [] OTHER -> bound

\* whether the library raises at statement s on what it is given: no
\* facet-to-cell connectivity, or a zero pivot
Raises(env, s) ==
    \/ s = 13 /\ ~env.solution_domain.conn
    \/ s = 23 /\ ProblemSolve(env.problem) = <<>>

\* no failure is injected
NoFailure == [stmt |-> 0, step |-> 0]

\* the names statement s has loaded when it comes to step k (k one past the
\* last step: all the names it loads)
LoadedBefore ==
    Stored([s \in DOMAIN Stmts |->
               [k \in 1..(Len(Stmts[s].steps) + 1) |->
                   {Stmts[s].steps[j] : j \in 1..(k - 1)} \ {Lib}]])

\* the exception the evaluation of statement s ends with before the
\* statement takes effect ("" when none).  The steps are taken in order and
\* the first that raises ends the statement: the library step failStep
\* raises the library's exception if every name loaded before it is bound,
\* and otherwise the load of a name that is not bound raises NameError
Evaluate(names, s, failStep) ==
    IF failStep # 0 /\ LoadedBefore[s][failStep] \subseteq names THEN Stmts[s].exc
    ELSE IF LoadedBefore[s][Len(Stmts[s].steps) + 1] \subseteq names THEN ""
    ELSE "NameError"

\* Exec that never checks whether a name is bound
RECURSIVE ExecUnchecked(_, _, _, _)
ExecUnchecked(env, s, last, failAt) ==
    IF s > last THEN [ns |-> env, err |-> "", stmt |-> 0, ran |-> last + 1]
    ELSE IF s = failAt.stmt \/ Raises(env, s)
    THEN [ns |-> env, err |-> Stmts[s].exc, stmt |-> s, ran |-> s]
    ELSE CHOOSE r \in {ExecUnchecked(done, s + 1, last, failAt) :
                          done \in {Effect(env, s)}} : TRUE

\* Exec that catches a library exception, reports it and carries on
RECURSIVE ExecContinuing(_, _, _, _)
ExecContinuing(env, s, last, failAt) ==
    IF s > last THEN [ns |-> env, err |-> "", stmt |-> 0, ran |-> last + 1]
    ELSE LET early == Evaluate(env.names, s, IF s = failAt.stmt THEN failAt.step ELSE 0)
         IN IF early = "NameError" THEN [ns |-> env, err |-> early, stmt |-> s, ran |-> s]
            ELSE IF early # "" \/ Raises(env, s)
            THEN [ExecContinuing(env, s + 1, last, failAt)
                     EXCEPT !.err = Stmts[s].exc, !.stmt = s]
            ELSE CHOOSE r \in {ExecContinuing(done, s + 1, last, failAt) :
                                  done \in {Effect(env, s)}} : TRUE

\* run statements s..last in order; an exception (a name that is not bound,
\* the injected failure of step failAt.step of statement failAt.stmt, or a
\* library call that raises on what it is given) ends the cell.  The
\* statements after s run in the namespace done that s leaves.
RECURSIVE Exec(_, _, _, _)
Exec(env, s, last, failAt) ==
    IF s > last THEN [ns |-> env, err |-> "", stmt |-> 0, ran |-> last + 1]
    ELSE LET early == Evaluate(env.names, s, IF s = failAt.stmt THEN failAt.step ELSE 0)
         IN IF early # "" THEN [ns |-> env, err |-> early, stmt |-> s, ran |-> s]
            ELSE IF Raises(env, s)
            THEN [ns |-> env, err |-> Stmts[s].exc, stmt |-> s, ran |-> s]
            ELSE CHOOSE r \in {Exec(done, s + 1, last, failAt) :
                                  done \in {Effect(env, s)}} : TRUE

\* the output area after the cell ran
Display(c, r, old) ==
    IF c # OutputCell THEN old
    ELSE IF r.err # "" THEN <<>>
    ELSE VectorArray(r.ns.uh)

\* the kernel executes cell c; failAt is the library step that fails, if any
\* (a step that fails is a step the execution reaches)
Execute(c, failAt) ==
    /\ execution_count < MaxExec
    /\ \E r \in {Exec(ns, FirstStmt(c), LastStmt[c], failAt)} :
          /\ failAt # NoFailure => r.stmt = failAt.stmt /\ r.err = Stmts[failAt.stmt].exc
          /\ ns' = r.ns
          /\ status' = [cell |-> c, err |-> r.err, stmt |-> r.stmt,
                         completed |-> r.ran - FirstStmt(c),
                         fresh |-> r.ns.names \ ns.names]
          /\ out' = Display(c, r, out)
    /\ execution_count' = execution_count + 1

\* the user runs a cell and every library call succeeds
RunCell == \E c \in CellIds : Execute(c, NoFailure)

\* the user runs a cell and one of its statements fails in the library
RunCellFailing ==
    \E c \in CellIds : \E s \in FirstStmt(c)..LastStmt[c] : \E k \in DOMAIN Stmts[s].steps :
        Stmts[s].steps[k] = Lib /\ Execute(c, [stmt |-> s, step |-> k])

\* the notebook in a new Jupyter kernel
Init ==
    /\ ns = EmptyNamespace
    /\ execution_count = 0
    /\ status = [cell |-> 0, err |-> "", stmt |-> 0, completed |-> 0, fresh |-> {}]
    /\ out = <<>>

Next == RunCell

Spec == Init /\ [][Next]_vars

\* library calls may raise
NextFail == RunCell \/ RunCellFailing

SpecFail == Init /\ [][NextFail]_vars

----------------------------------------------------------------------------
(* The array the notebook shows under its last cell, in units of 10^-8     *)

PrintedArray == <<
    100000000, 103125000, 101562500, 104687500, 112500000, 114062500,
    106250000, 109375000, 128125000, 129687500, 118750000, 114062500,
    117187500, 150000000, 151562500, 134375000, 126562500, 125000000,
    128125000, 178125000, 179687500, 156250000, 142187500, 137500000,
    139062500, 142187500, 212500000, 214062500, 184375000, 164062500,
    153125000, 151562500, 156250000, 159375000, 253125000, 254687500,
    218750000, 192187500, 175000000, 167187500, 168750000, 176562500,
    179687500, 300000000, 301562500, 259375000, 226562500, 203125000,
    189062500, 184375000, 189062500, 200000000, 203125000, 306250000,
    267187500, 237500000, 217187500, 206250000, 204687500, 212500000,
    314062500, 278125000, 251562500, 234375000, 226562500, 228125000,
    325000000, 292187500, 268750000, 254687500, 250000000, 339062500,
    309375000, 289062500, 278125000, 356250000, 329687500, 312500000,
    376562500, 353125000, 400000000 >>

----------------------------------------------------------------------------
(* Properties                                                              *)

Bound(name) == name \in ns.names

SolveReturned == status.cell = SolveCell /\ status.err = ""

OutputShown == status.cell = OutputCell /\ status.err = ""

\* the exact nodal values satisfy the assembled equation at every interior
\* node
ExactSatisfiesEquations ==
    \A r \in Dofs \ NotebookDofs :
        Sum([c \in Dofs |->
                LET n == NodeOfDof[c]
                IN AssembleMatrix[r][c] * (N * N + n[1] * n[1] + 2 * n[2] * n[2])],
            0, NDofs - 1) = AssembleVector(f_num)[r]

\* C1: once the solve has returned, the value at every node (i/8, j/8)
\* is the exact one, 64 u = 64 + i^2 + 2 j^2, and the exact values satisfy
\* the assembled equation at each of the 49 interior nodes.
SolveMatchesExact ==
    Bound("uh") =>
        /\ \A n \in Nodes :
              ns.uh.x[DofOfNode[n]] = [num |-> N * N + n[1] * n[1] + 2 * n[2] * n[2], den |-> 1]
        /\ Cardinality(Dofs \ NotebookDofs) = (N - 1) * (N - 1)
        /\ ExactSatisfiesEquations

SolveMatchesExactWitness ==
    /\ SolveReturned
    /\ "uh" \in status.fresh
    /\ ns.uh.x[DofOfNode[<<N, N>>]] = [num |-> 4 * N * N, den |-> 1]
    /\ ns.uh.x[DofOfNode[<<1, 1>>]] = [num |-> N * N + 3, den |-> 1]

\* C2: after the solve, at every DOF of boundary_dofs the solution has
\* exactly the value of the interpolated u_boundary (the value the boundary
\* condition was built with).
DirichletValuesKept ==
    SolveReturned =>
        /\ \A d \in ns.boundary_dofs : ns.uh.x[d] = [num |-> ns.u_boundary.x[d], den |-> 1]
        /\ \A d \in ns.problem.dofs : ns.uh.x[d] = [num |-> ns.problem.g[d], den |-> 1]

DirichletValuesKeptWitness ==
    /\ SolveReturned
    /\ ns.boundary_dofs # {}
    /\ ns.problem.dofs = ns.boundary_dofs
    /\ \E d \in ns.boundary_dofs : ns.uh.x[d].num = 4 * N * N /\ ns.u_boundary.x[d] = 4 * N * N

\* every mesh vertex carries one DOF and every DOF sits on one vertex
OneDofPerVertex ==
    /\ \A d \in Dofs : Cardinality({n \in Nodes : DofOfNode[n] = d}) = 1
    /\ \A n \in Nodes : DofOfNode[n] \in Dofs

\* C4: the array shown has exactly (8+1)*(8+1) = 81 entries, entry d being
\* the value of DOF d: one entry per DOF, none missing, none twice.
OneValuePerDof ==
    OutputShown =>
        /\ Len(out) = (N + 1) * (N + 1)
        /\ Len(out) = Cardinality(Nodes)
        /\ \A d \in Dofs : out[d + 1] = Format(ns.uh.x[d])
        /\ OneDofPerVertex

OneValuePerDofWitness ==
    /\ OutputShown
    /\ Len(out) = NDofs
    /\ out[NDofs] = 4 * PrintUnit

\* the printed values, times 64, are the values 64 + i^2 + 2 j^2 of the
\* grid nodes, each as often as it occurs among the nodes
PrintedIsExactBag ==
    /\ Len(PrintedArray) = Cardinality(Nodes)
    /\ \A k \in DOMAIN PrintedArray :
          Cardinality({m \in DOMAIN PrintedArray : PrintedArray[m] = PrintedArray[k]})
            = Cardinality({n \in Nodes :
                  PrintedArray[k] = (PrintUnit \div (N * N)) * (N * N + n[1] * n[1] + 2 * n[2] * n[2])})

\* C5: the printed array is a valid fixture: its 81 entries can be matched
\* one to one with the grid nodes so that each is 1 + (i^2 + 2 j^2)/64, and
\* it is the array the output cell shows.
PrintedFixtureValid ==
    /\ PrintedIsExactBag
    /\ OutputShown => out = PrintedArray

PrintedFixtureValidWitness ==
    /\ OutputShown
    /\ out = PrintedArray
    /\ PrintedArray[2] = (PrintUnit \div (N * N)) * (N * N + 2)

\* C6 as stated: one pass in notebook order, every execution running the
\* cell that follows the one executed before it.
SingleSequentialPass == [][status'.cell = status.cell + 1]_vars

\* C6 as amended: cells run one at a time in whatever order the user runs
\* them; a name is bound only when every name its statement reads is bound,
\* so the solve has a, L and bc, and the output is shown only once the solve
\* has returned.
InputsDefinedFirst ==
    /\ \A s \in DOMAIN Stmts : Stmts[s].binds \in ns.names => LoadedBefore[s][Len(Stmts[s].steps) + 1] \subseteq ns.names
    /\ (status.cell # 0 /\ status.err = "") =>
          \A s \in FirstStmt(status.cell)..LastStmt[status.cell] : LoadedBefore[s][Len(Stmts[s].steps) + 1] \subseteq ns.names
    /\ Bound("uh") => {"a", "L", "bc", "problem"} \subseteq ns.names /\ ns.uh.x # <<>>
    /\ out # <<>> => Bound("uh")

InputsDefinedFirstWitness ==
    /\ OutputShown
    /\ out # <<>>
    /\ {"a", "L", "bc", "uh"} \subseteq ns.names
    /\ "numpy" \in ns.names

\* C7: a library call that raises ends the execution at that statement:
\* the exception reaches the kernel, the statement is not run again, nothing
\* after it runs, it binds nothing, no solution is produced and no array is
\* shown by that execution.
NoRecovery ==
    [][status'.err \notin {"", "NameError"} =>
         /\ status'.completed = status'.stmt - FirstStmt(status'.cell)
         /\ execution_count' = execution_count + 1
         /\ ns'.names \subseteq
               ns.names \cup {Stmts[t].binds : t \in FirstStmt(status'.cell)..(status'.stmt - 1)}
         /\ Stmts[status'.stmt].binds \in ns'.names <=> Stmts[status'.stmt].binds \in ns.names
         /\ ns'.uh = ns.uh
         /\ out' = IF status'.cell = OutputCell THEN <<>> ELSE out ]_vars

NoRecoveryWitness ==
    /\ status.err = "LibraryError"
    /\ status.cell = SolveCell
    /\ Stmts[status.stmt].binds = "uh"
    /\ status.completed = 1
    /\ ~Bound("uh")
    /\ out = <<>>

\* the nodes and the facets on the boundary of the square
OnBoundary(n) == n[1] \in {0, N} \/ n[2] \in {0, N}

BoundaryNodes == {n \in Nodes : OnBoundary(n)}

BoundaryFacets ==
    {fc \in Facets : \E side \in {1, 2}, at \in {0, N} : \A n \in FacetNodes(fc) : n[side] = at}

\* C8: the exterior facets are the facets attached to a single cell, which
\* are the facets on the boundary of the square; the DOFs located on them
\* are the 32 nodes with i in {0,8} or j in {0,8}, and the boundary
\* condition constrains these and none of the 49 interior nodes.
DirichletOnBoundary ==
    /\ Bound("boundary_facets") =>
          /\ ns.boundary_facets = {fc \in Facets : Cardinality(FacetToCell[fc]) = 1}
          /\ ns.boundary_facets = BoundaryFacets
    /\ Bound("boundary_dofs") =>
          /\ {NodeOfDof[d] : d \in ns.boundary_dofs} = BoundaryNodes
          /\ Cardinality(ns.boundary_dofs) = 4 * N
    /\ Bound("bc") =>
          /\ ns.bc.dofs = {DofOfNode[n] : n \in BoundaryNodes}
          /\ Cardinality(Dofs \ ns.bc.dofs) = (N - 1) * (N - 1)

DirichletOnBoundaryWitness ==
    /\ Bound("bc")
    /\ status.cell = 5
    /\ status.err = ""
    /\ Cardinality(ns.bc.dofs) = 4 * N
    /\ DofOfNode[<<0, 0>>] \in ns.bc.dofs
    /\ DofOfNode[<<1, 1>>] \notin ns.bc.dofs

====
